---- MODULE Spec2Model ----
(***************************************************************************)
(* Model of the cloud sync engine of the year planner:                     *)
(*   src/src/hooks/useCloudSync.ts      (the hook: pull, push, realtime)   *)
(*   src/src/contexts/AuthContext.tsx   (handleSyncNow)                    *)
(*                                                                         *)
(* One hook instance (one browser tab) talks to a remote document store    *)
(* that other devices write to as well.  Every await in the hook is a      *)
(* suspension point: a request is put in flight by one action and its      *)
(* continuation runs in another.  A continuation runs to the end of its    *)
(* microtask chain (the .then of the auto-pull, the second await of Sync   *)
(* Now) and is followed by the React commit it scheduled: the assignment   *)
(* dateCellsRef.current = dateCells of the hook body and the effects       *)
(* whose dependencies changed.  That whole chain is one action.            *)
(***************************************************************************)
EXTENDS Integers, Sequences, FiniteSets, TLC

(* ------------------------------ bounds -------------------------------- *)
MaxTime == 2         \* instants are 1..MaxTime
MaxSteps == 4        \* operations in a behaviour

(* --------------------------- value domains ---------------------------- *)
Years == {2025, 2026}
NoUser == "none"
TheUser == "user-123"
Instants == 1..MaxTime
Zones == {"Z", "+00:00"}

EmptyDoc == [k \in {} |-> "red"]
DocA == [k \in {"01-01"} |-> "red"]
DocB == [k \in {"01-02"} |-> "blue"]
Docs == {EmptyDoc, DocA, DocB}

\* Map.size / Object.entries(..).length
Size(d) == Cardinality(DOMAIN d)

(* ----------------------------- timestamps ----------------------------- *)
\* A timestamp string is a sequence of character codes: one digit for the
\* instant, then the zone suffix, "Z" or "+00:00".
NoTs == << >>
ZoneSuffix(z) == IF z = "Z" THEN <<90>> ELSE <<43, 48, 48, 58, 48, 48>>
FormatTs(i, z) == <<48 + i>> \o ZoneSuffix(z)
\* new Date().toISOString() always ends in "Z"
ToISOString(i) == FormatTs(i, "Z")
\* new Date(s).getTime()
GetTime(s) == s[1] - 48
TsStrings == {FormatTs(i, z) : i \in Instants, z \in Zones}

\* JavaScript's a > b on strings: code unit by code unit, a proper prefix
\* is smaller.
RECURSIVE StrGreater(_, _)
StrGreater(a, b) ==
    IF a = << >> THEN FALSE
    ELSE IF b = << >> THEN TRUE
    ELSE IF Head(a) # Head(b) THEN Head(a) > Head(b)
    ELSE StrGreater(Tail(a), Tail(b))

(* ------------------------------- state -------------------------------- *)
VARIABLES
    mounted,            \* the hook (and the provider hosting it) is mounted
    user,               \* useAuth().user
    year,               \* the year prop, the active partition
    dateCells,          \* Document State held by the host
    dateCellsRef,       \* dateCellsRef.current, as of the last render
    syncTimestamp,      \* localStorage[SYNC_TS_KEY], NoTs when absent
    syncStatus,
    isPushingRef,
    initialPullDoneRef,
    isFromRealtimeRef,
    debounceTimerRef,   \* {} or the one pending timer, with its closure
    cleanup,            \* the last run of the auto-push effect returned a cleanup
    channelIdRef,
    channel,            \* {} or the one subscribed channel
    fetches,            \* fetch calls in flight
    upserts,            \* upsert calls in flight
    queue,              \* echoes of this device's upserts, on their way to it
    remote,             \* the store: the row of calendar_states of each year
    storage,            \* localStorage: whether getItem and setItem succeed
    docOrigin,          \* history: who wrote dateCells last
    steps,              \* history: operations so far
    ev                  \* history: the last operation and what it did

vars == <<mounted, user, year, dateCells, dateCellsRef, syncTimestamp,
          syncStatus, isPushingRef, initialPullDoneRef, isFromRealtimeRef,
          debounceTimerRef, cleanup, channelIdRef, channel, fetches, upserts,
          queue, remote, storage, docOrigin, steps, ev>>

isEnabled == user # NoUser

\* localStorage works, or its getItem throws, or its setItem throws, or both
\* do (storage disabled, quota exceeded).
Working == [read |-> TRUE, write |-> TRUE]
StorageStates == [read : BOOLEAN, write : BOOLEAN]

\* Every operation counts as one step of the behaviour.
Tick == steps < MaxSteps /\ steps' = steps + 1

NoRow == [present |-> FALSE, data |-> EmptyDoc, ts |-> 1]
Row(d, t) == [present |-> TRUE, data |-> d, ts |-> t]
\* What maybeSingle() can return for a year: no row, or the row some device
\* wrote last.  Of a row without date-keys the code reads no more than that
\* it has none, so one such row stands for all.
DataRows == {Row(d, t) : d \in Docs \ {EmptyDoc}, t \in Instants}
Rows == {NoRow, Row(EmptyDoc, 1)} \cup DataRows
\* The store renders updated_at with either suffix in a fetch result (the
\* tests answer with "Z"), and with "+00:00" in a change notification
\* (lines 165-166).
RealtimeZone == "+00:00"

\* ev: op names the operation; the other fields say what it was given and
\* what it did.
\*   ok         the fetch succeeded
\*   empty      the fetched row is absent or its payload has no date-key;
\*              the notification's payload has no date-key; the Document
\*              State the operation saw is empty (edit, push)
\*   localEmpty dateCellsRef.current.size = 0 when the pull decided
\*   hadTs      a Sync Timestamp was recorded when the operation decided
\*   newer      the remote updated_at > the recorded Sync Timestamp (strings)
\*   same       the remote updated_at and the recorded Sync Timestamp denote
\*              the same instant
\*   match      the notification's year is the subscription's year
\*   own        the notification echoes an upsert of this device
\*   applied    the operation called setDateCells (a no-op once the host
\*              has unmounted)
\*   pushed     the operation issued an upsert
\*   current    the fetch was the one issued for the active (owner, partition)
\*   ts         the updatedAt the operation was to record as Sync Timestamp:
\*              the one the store reported with the row it applied, or the
\*              one the acknowledged push had sent; NoTs when none
\*   clock      that updatedAt was read from the local clock
\*   phase      the phase the pull passed to setSyncStatus as it ended
\*   active     the notification's year is the active partition
\*   data       the payload the operation passed to setDateCells; EmptyDoc
\*              when it passed none
\*   hadTimer   a debounce timer was pending as the user signed out, changed
\*              the year or edited, or as the hook unmounted
Ev(op) ==
    [op |-> op, ok |-> FALSE, empty |-> FALSE, localEmpty |-> FALSE,
     hadTs |-> FALSE, newer |-> FALSE, same |-> FALSE, match |-> FALSE,
     own |-> FALSE, applied |-> FALSE, pushed |-> FALSE, current |-> FALSE,
     ts |-> NoTs, clock |-> FALSE, phase |-> "none",
     active |-> FALSE, data |-> EmptyDoc, hadTimer |-> FALSE]

\* A fetch issued by the auto-pull effect is marked cur; the marks of the
\* earlier ones are dropped when the effect runs again.
Retire(fs) == {[f EXCEPT !.cur = FALSE] : f \in fs}
Fetch(y, origin, cur) == [year |-> y, origin |-> origin, cur |-> cur]
\* An upsert call: the row it writes and, to tell two calls apart, the step
\* that issued it.
Upsert(y, d, now, n) == [year |-> y, data |-> d, ts |-> now, id |-> n]

\* The hook has mounted for a signed-in user and its effects have run once:
\* the auto-pull effect (133-140) has its fetch in flight, the subscription
\* effect (147-183) has subscribed its first channel, the auto-push effect
\* (186-212) returned at the initial-pull guard.  Document State and the
\* Sync Timestamp are what earlier sessions left in local storage.
InitHook ==
    /\ mounted = TRUE
    /\ user = TheUser
    /\ year = 2025
    /\ dateCells \in Docs
    /\ dateCellsRef = dateCells
    /\ syncTimestamp \in TsStrings \cup {NoTs}
    /\ syncStatus = "pulling"
    /\ isPushingRef = FALSE
    /\ initialPullDoneRef = FALSE
    /\ isFromRealtimeRef = FALSE
    /\ debounceTimerRef = {}
    /\ cleanup = FALSE
    /\ channelIdRef = 1
    /\ channel = {[year |-> 2025, id |-> 1]}
    /\ fetches = {Fetch(2025, "auto", TRUE)}
    /\ upserts = {}
    /\ queue = << >>
    /\ docOrigin = "init"
    /\ steps = 0
    /\ ev = Ev("init")

\* Spec leaves the content of the store open: a fetch may be answered with
\* any row, and remote, which no operation of the hook reads, keeps its
\* initial value.  localStorage works throughout.
Init ==
    /\ InitHook
    /\ remote = [y \in Years |-> NoRow]
    /\ storage = Working

(* ------------------- the decisions the code takes --------------------- *)
\* Line 117 with >= for >: a remote document as old as the recorded Sync
\* Timestamp is applied too.
ShouldApplyNotOlder(localTs, cloudTs, localSize) ==
    \/ localTs = NoTs
    \/ ~StrGreater(localTs, cloudTs)
    \/ localSize = 0

\* Line 117 without its third disjunct: an empty local state no longer
\* loses to an older remote document.
ShouldApplyNewerOnly(localTs, cloudTs, localSize) ==
    \/ localTs = NoTs
    \/ StrGreater(cloudTs, localTs)

\* Line 117 absent: every non-empty remote document is applied, whatever
\* Sync Timestamp is recorded.
ShouldApplyAlways(localTs, cloudTs, localSize) == TRUE

\* getSyncTimestamp without its catch taking the failure for absence: the
\* pull decides on the value last stored.
GetSyncTimestampLastStored(stored, canRead) == stored

\* getSyncTimestamp, lines 11-17: the stored value, null when none is
\* stored or when getItem throws.
GetSyncTimestamp(stored, canRead) == IF canRead THEN stored ELSE NoTs

\* setSyncTimestamp, lines 19-25: what is stored afterwards; a throwing
\* setItem is logged and stores nothing.
SetSyncTimestamp(stored, ts, canWrite) == IF canWrite THEN ts ELSE stored

\* pullFromCloud, line 117: replace local state if no local timestamp
\* exists, the cloud string is greater, or local data is empty.
ShouldApply(localTs, cloudTs, localSize) ==
    \/ localTs = NoTs
    \/ StrGreater(cloudTs, localTs)
    \/ localSize = 0

\* Lines 106-111 without the test of line 111: a row is taken for data
\* whatever its payload holds.
HasDataAnyRow(ok, row) == ok /\ row.present

\* pullFromCloud, lines 106-111: the fetch succeeded, returned a row, and
\* the row's payload has at least one date-key.
HasData(ok, row) == ok /\ row.present /\ Size(row.data) > 0

\* Line 168 comparing the two strings instead of the two instants.
IsOwnEchoByString(localTs, rowTs) ==
    /\ localTs # NoTs
    /\ rowTs = localTs

\* Lines 117-121 without line 120: the document is applied and the Sync
\* Timestamp left as it was.
PulledTsKeepsLocal(apply, cloudTs, localTs) == localTs

\* Lines 100-104 and 126-129 reporting a failed fetch like a successful one.
PullPhaseAlwaysIdle(ok) == "idle"

\* Lines 102 and 128 missing: a failed fetch leaves the phase at pulling.
PullPhaseStuckOnFailure(ok) == IF ok THEN "idle" ELSE "pulling"

\* pullFromCloud, lines 100-104, 125 and 126-129: the phase the pull ends in.
PullPhase(ok) == IF ok THEN "idle" ELSE "error"

\* Lines 73-75 and 80-82 reporting a failed upsert like a successful one.
PushPhaseAlwaysIdle(ok) == "idle"

\* pushToCloud, lines 73-82: the phase the push ends in.
PushPhase(ok) == IF ok THEN "idle" ELSE "error"

\* Lines 83-85 placed in the success branch instead of a finally.
PushingAfterOnlyClearedOnSuccess(ok) == ~ok

\* pushToCloud, lines 83-85: the push-in-flight flag as the push ends.
PushingAfter(ok) == FALSE

\* Line 120 moved out of the if of line 117: the remote updated_at is
\* recorded whether or not the document is applied.
PulledTsAlways(apply, cloudTs, localTs) == cloudTs

\* pullFromCloud, lines 117-121: the Sync Timestamp after the pull decided.
PulledTs(apply, cloudTs, localTs) == IF apply THEN cloudTs ELSE localTs

\* Lines 118-119 and 174 adding the remote entries to the local ones.
ReplacedMerging(local, payload) == payload @@ local

\* pullFromCloud, lines 118-119, and the realtime handler, line 174: the
\* Document State after setDateCells(new Map(entries)).
Replaced(local, payload) == payload

\* realtime handler, line 168: our own push, compared as Date.
IsOwnEcho(localTs, rowTs) ==
    /\ localTs # NoTs
    /\ GetTime(rowTs) = GetTime(localTs)

\* The handler without the partition check of line 163.
AcceptsRowAnyYear(handlerYear, rowYear, localTs, rowTs, rowSize) ==
    /\ ~IsOwnEcho(localTs, rowTs)
    /\ rowSize # 0

\* The handler without the empty-payload check of lines 170-171.
AcceptsRowAnyPayload(handlerYear, rowYear, localTs, rowTs, rowSize) ==
    /\ rowYear = handlerYear
    /\ ~IsOwnEcho(localTs, rowTs)

\* realtime handler, lines 163-171: is the row applied?
AcceptsRow(handlerYear, rowYear, localTs, rowTs, rowSize) ==
    /\ rowYear = handlerYear
    /\ ~IsOwnEcho(localTs, rowTs)
    /\ rowSize # 0

\* The subscription effect returning no cleanup: no channel is ever removed.
RemoveChannelNever(chs, id) == chs

\* The cleanup of the subscription effect, lines 180-182: removeChannel of
\* the channel that run of the effect subscribed, the one numbered id.
RemoveChannel(chs, id) == {c \in chs : c.id # id}

\* The body of the subscription effect past its guard, lines 150-178: a
\* channel for year y, its name ending in id, is subscribed.
Subscribe(chs, y, id) == chs \cup {[year |-> y, id |-> id]}

\* Line 150 without the ++: the new channel takes the name of the last.
SubscriptionEffectSameName(chs, lastId, enabled, y) ==
    LET cleaned == RemoveChannel(chs, lastId)
    IN  IF enabled THEN Subscribe(cleaned, y, lastId) ELSE cleaned

\* The subscription effect, lines 147-183, run again because one of
\* [isEnabled, user, year] changed: React runs the cleanup of the last run
\* (lastId numbers the channel it subscribed), then the body.
SubscriptionEffect(chs, lastId, enabled, y) ==
    LET cleaned == RemoveChannel(chs, lastId)
    IN  IF enabled THEN Subscribe(cleaned, y, lastId + 1) ELSE cleaned

\* The auto-push effect without lines 190-194: a change that came from a
\* notification is scheduled for a push like a local one.
AutoPushEffectNoFlag(enabled, pullDone, pushing, fromRealtime, cells, timer, hadCleanup, y) ==
    LET cleared == IF hadCleanup THEN {} ELSE timer
        skip == [flag |-> fromRealtime, timer |-> cleared, cleanup |-> FALSE]
    IN  IF ~enabled THEN skip
        ELSE IF ~pullDone THEN skip
        ELSE IF pushing THEN skip
        ELSE IF Size(cells) = 0 THEN skip
        ELSE [flag |-> fromRealtime, timer |-> {[year |-> y]}, cleanup |-> TRUE]

\* The auto-push effect without lines 199-201 and without the cleanup of
\* lines 207-211: a timer, once set, stays pending until it fires.
AutoPushEffectNoCleanup(enabled, pullDone, pushing, fromRealtime, cells, timer, hadCleanup, y) ==
    LET skip == [flag |-> fromRealtime, timer |-> timer, cleanup |-> FALSE]
    IN  IF ~enabled THEN skip
        ELSE IF ~pullDone THEN skip
        ELSE IF pushing THEN skip
        ELSE IF fromRealtime THEN [skip EXCEPT !.flag = FALSE]
        ELSE IF Size(cells) = 0 THEN skip
        ELSE [flag |-> FALSE, timer |-> timer \cup {[year |-> y]},
              cleanup |-> FALSE]

\* The auto-push effect, lines 186-212, run because one of its dependencies
\* [isEnabled, dateCells, pushToCloud] changed.  React first runs the
\* cleanup the previous run returned (207-211), then the body.  The result
\* is the remote-originated flag, the pending timer and whether this run
\* returned a cleanup.
AutoPushEffect(enabled, pullDone, pushing, fromRealtime, cells, timer, hadCleanup, y) ==
    LET cleared == IF hadCleanup THEN {} ELSE timer
        skip == [flag |-> fromRealtime, timer |-> cleared, cleanup |-> FALSE]
    IN  IF ~enabled THEN skip
        ELSE IF ~pullDone THEN skip
        ELSE IF pushing THEN skip
        ELSE IF fromRealtime THEN [skip EXCEPT !.flag = FALSE]
        ELSE IF Size(cells) = 0 THEN skip
        ELSE [flag |-> FALSE, timer |-> {[year |-> y]}, cleanup |-> TRUE]

(* ----------------- operations driven by the host UI ------------------- *)
\* The identity provider reports a user: isEnabled becomes true and all
\* three effects run (133-140, 147-183, 186-212).
SignIn ==
    /\ Tick
    /\ mounted /\ user = NoUser
    /\ user' = TheUser
    /\ initialPullDoneRef' = FALSE
    /\ syncStatus' = "pulling"
    /\ fetches' = Retire(fetches) \cup {Fetch(year, "auto", TRUE)}
    /\ channelIdRef' = channelIdRef + 1
    /\ channel' = SubscriptionEffect(channel, channelIdRef, TRUE, year)
    /\ queue' = << >>
    /\ LET r == AutoPushEffect(TRUE, FALSE, isPushingRef, isFromRealtimeRef,
                               dateCells, debounceTimerRef, cleanup, year)
       IN  /\ isFromRealtimeRef' = r.flag
           /\ debounceTimerRef' = r.timer
           /\ cleanup' = r.cleanup
           /\ ev' = Ev("signIn")
    /\ UNCHANGED <<mounted, year, dateCells, dateCellsRef, syncTimestamp,
                   isPushingRef, upserts, docOrigin>>

\* The user signs out: isEnabled becomes false, the subscription effect's
\* cleanup removes the channel, the auto-push cleanup clears the timer and
\* every effect body returns at its guard.
SignOut ==
    /\ Tick
    /\ mounted /\ user # NoUser
    /\ user' = NoUser
    /\ channel' = SubscriptionEffect(channel, channelIdRef, FALSE, year)
    /\ queue' = << >>
    /\ fetches' = Retire(fetches)
    /\ LET r == AutoPushEffect(FALSE, initialPullDoneRef, isPushingRef,
                               isFromRealtimeRef, dateCells, debounceTimerRef,
                               cleanup, year)
       IN  /\ isFromRealtimeRef' = r.flag
           /\ debounceTimerRef' = r.timer
           /\ cleanup' = r.cleanup
           /\ ev' = [Ev("signOut") EXCEPT !.hadTimer = debounceTimerRef # {}]
    /\ UNCHANGED <<mounted, year, dateCells, dateCellsRef, syncTimestamp,
                   syncStatus, isPushingRef, initialPullDoneRef, channelIdRef,
                   upserts, docOrigin>>

\* The host selects another year: pushToCloud and pullFromCloud are new
\* callbacks, so the auto-pull, the subscription and the auto-push effects
\* run again, in that order.
SetSelectedYear(y) ==
    /\ Tick
    /\ mounted /\ y # year
    /\ year' = y
    /\ IF isEnabled
       THEN /\ initialPullDoneRef' = FALSE
            /\ syncStatus' = "pulling"
            /\ fetches' = Retire(fetches) \cup {Fetch(y, "auto", TRUE)}
            /\ channelIdRef' = channelIdRef + 1
            /\ channel' = SubscriptionEffect(channel, channelIdRef, TRUE, y)
            /\ queue' = << >>
       ELSE UNCHANGED <<initialPullDoneRef, syncStatus, fetches, channelIdRef,
                        channel, queue>>
    /\ LET r == AutoPushEffect(isEnabled, initialPullDoneRef', isPushingRef,
                               isFromRealtimeRef, dateCells, debounceTimerRef,
                               cleanup, y)
       IN  /\ isFromRealtimeRef' = r.flag
           /\ debounceTimerRef' = r.timer
           /\ cleanup' = r.cleanup
           /\ ev' = [Ev("setYear") EXCEPT !.hadTimer = debounceTimerRef # {}]
    /\ UNCHANGED <<mounted, user, dateCells, dateCellsRef, syncTimestamp,
                   isPushingRef, upserts, docOrigin>>

\* A local edit: the host replaces Document State in an event handler and
\* React commits before the handler returns; only the auto-push effect has
\* a changed dependency.
Edit(d) ==
    /\ Tick
    /\ mounted /\ d # dateCells
    /\ dateCells' = d
    /\ dateCellsRef' = d
    /\ docOrigin' = "local"
    /\ LET r == AutoPushEffect(isEnabled, initialPullDoneRef, isPushingRef,
                               isFromRealtimeRef, d, debounceTimerRef,
                               cleanup, year)
       IN  /\ isFromRealtimeRef' = r.flag
           /\ debounceTimerRef' = r.timer
           /\ cleanup' = r.cleanup
           /\ ev' = [Ev("edit") EXCEPT !.empty = Size(d) = 0,
                                       !.hadTimer = debounceTimerRef # {}]
    /\ UNCHANGED <<mounted, user, year, syncTimestamp, syncStatus,
                   isPushingRef, initialPullDoneRef, channelIdRef, channel,
                   fetches, upserts, queue>>

\* The hook unmounts: the cleanups of the subscription effect (180-182) and
\* of the auto-push effect (207-211) run.
Unmount ==
    /\ Tick
    /\ mounted
    /\ mounted' = FALSE
    /\ channel' = RemoveChannel(channel, channelIdRef)
    /\ queue' = << >>
    /\ fetches' = Retire(fetches)
    /\ debounceTimerRef' = IF cleanup THEN {} ELSE debounceTimerRef
    /\ cleanup' = FALSE
    /\ ev' = [Ev("unmount") EXCEPT !.hadTimer = debounceTimerRef # {}]
    /\ UNCHANGED <<user, year, dateCells, dateCellsRef, syncTimestamp,
                   syncStatus, isPushingRef, initialPullDoneRef,
                   isFromRealtimeRef, channelIdRef, upserts,
                   docOrigin>>

(* ------------------------ Sync Now and the timer ----------------------- *)
\* The Sync Now button, AuthContext.tsx 131-134 and 367-370, the one caller
\* of the pullFromCloud and pushToCloud the hook returns: shown to an
\* authenticated user, disabled while pushing or pulling.  It awaits
\* pullFromCloud() (88-98: the phase becomes pulling, the fetch is in
\* flight); the push follows in FetchResolve.
SyncNow ==
    /\ Tick
    /\ mounted /\ user # NoUser
    /\ syncStatus \notin {"pushing", "pulling"}
    /\ syncStatus' = "pulling"
    /\ fetches' = fetches \cup {Fetch(year, "syncnow", FALSE)}
    /\ ev' = Ev("syncNow")
    /\ UNCHANGED <<mounted, user, year, dateCells, dateCellsRef, syncTimestamp,
                   isPushingRef, initialPullDoneRef, isFromRealtimeRef,
                   debounceTimerRef, cleanup, channelIdRef, channel, upserts,
                   queue, docOrigin>>

\* The store reports every write of a row of the user to the subscribers of
\* the user's rows, the writer included: the echo of the upsert u is on its
\* way while this device's channel is subscribed.
Echoed(u) == IF channel = {} THEN queue ELSE Append(queue, u)

\* The debounce timer fires, lines 203-205: pushToCloud (54-71) of the
\* render that scheduled it puts the upsert of dateCellsRef.current,
\* stamped with the local clock, in flight.
TimerFire ==
    /\ Tick
    /\ debounceTimerRef # {}
    /\ debounceTimerRef' = {}
    /\ isPushingRef' = TRUE
    /\ syncStatus' = "pushing"
    /\ \E t \in debounceTimerRef, now \in Instants :
          LET u == Upsert(t.year, dateCellsRef, now, steps + 1)
          IN  /\ upserts' = upserts \cup {u}
              /\ queue' = Echoed(u)
    /\ ev' = [Ev("timerFire") EXCEPT !.pushed = TRUE,
                                    !.empty = Size(dateCellsRef) = 0]
    /\ UNCHANGED <<mounted, user, year, dateCells, dateCellsRef, syncTimestamp,
                   initialPullDoneRef, isFromRealtimeRef, cleanup, channelIdRef,
                   channel, fetches, docOrigin>>

(* -------------------- the continuation of a pull ---------------------- *)
\* The fetch of f resolves, lines 100-129: with row, what the store holds for
\* f.year, its updated_at rendered with zone suffix z, or with a failure
\* (an error result, 100-104, or a throw, 126-129).  Then, in the same
\* microtask chain, the .then of the auto-pull effect (137-139) or the
\* pushToCloud() of Sync Now (AuthContext.tsx 133, which still sees the
\* dateCellsRef.current of the last render), and last the commit of the
\* setDateCells call.
FetchResolve(f, ok, row, z) ==
    /\ Tick
    /\ f \in fetches
    /\ LET cloudTs == FormatTs(row.ts, z)
           localTs == GetSyncTimestamp(syncTimestamp, storage.read)
           hasData == HasData(ok, row)
           apply == hasData /\ ShouldApply(localTs, cloudTs, Size(dateCellsRef))
           written == apply /\ mounted
           pullDone == IF f.origin = "auto" THEN TRUE ELSE initialPullDoneRef
           thenPush == f.origin = "syncnow"
           pushing == IF thenPush THEN TRUE ELSE isPushingRef
           cells == IF written THEN Replaced(dateCells, row.data) ELSE dateCells
           r == IF written
                THEN AutoPushEffect(isEnabled, pullDone, pushing,
                                    isFromRealtimeRef, cells, debounceTimerRef,
                                    cleanup, year)
                ELSE [flag |-> isFromRealtimeRef, timer |-> debounceTimerRef,
                      cleanup |-> cleanup]
       IN  /\ fetches' = fetches \ {f}
           /\ dateCells' = cells
           /\ dateCellsRef' = cells
           /\ docOrigin' = IF written THEN "pull" ELSE docOrigin
           /\ syncTimestamp' =
                 SetSyncTimestamp(syncTimestamp,
                                  PulledTs(apply, cloudTs, syncTimestamp),
                                  storage.write)
           /\ initialPullDoneRef' = pullDone
           /\ isPushingRef' = pushing
           /\ IF thenPush
              THEN \E now \in Instants :
                      LET u == Upsert(f.year, dateCellsRef, now, steps + 1)
                      IN  /\ upserts' = upserts \cup {u}
                          /\ queue' = Echoed(u)
              ELSE UNCHANGED <<upserts, queue>>
           /\ syncStatus' = IF ~mounted THEN syncStatus
                            ELSE IF thenPush THEN "pushing"
                            ELSE PullPhase(ok)
           /\ isFromRealtimeRef' = r.flag
           /\ debounceTimerRef' = r.timer
           /\ cleanup' = r.cleanup
           /\ ev' = [Ev("fetchResolve") EXCEPT
                        !.ok = ok,
                        !.empty = ok /\ (~row.present \/ Size(row.data) = 0),
                        !.localEmpty = Size(dateCellsRef) = 0,
                        !.hadTs = localTs # NoTs,
                        !.newer = hasData /\ StrGreater(cloudTs, localTs),
                        !.same = hasData /\ localTs # NoTs
                                 /\ GetTime(cloudTs) = GetTime(localTs),
                        !.applied = apply,
                        !.pushed = thenPush,
                        !.current = f.cur,
                        !.ts = IF apply THEN cloudTs ELSE NoTs,
                        !.phase = PullPhase(ok),
                        !.data = IF apply THEN row.data ELSE EmptyDoc]
    /\ UNCHANGED <<mounted, user, year, channelIdRef, channel>>

(* -------------------- the continuation of a push ---------------------- *)
\* The upsert u is acknowledged without error, lines 76-79 and 83-85.
UpsertAck(u) ==
    /\ Tick
    /\ u \in upserts
    /\ upserts' = upserts \ {u}
    /\ syncTimestamp' =
          SetSyncTimestamp(syncTimestamp, ToISOString(u.ts), storage.write)
    /\ syncStatus' = IF mounted THEN PushPhase(TRUE) ELSE syncStatus
    /\ isPushingRef' = PushingAfter(TRUE)
    /\ ev' = [Ev("upsertAck") EXCEPT !.ok = TRUE, !.ts = ToISOString(u.ts),
                                    !.clock = TRUE]
    /\ UNCHANGED <<mounted, user, year, dateCells, dateCellsRef,
                   initialPullDoneRef, isFromRealtimeRef, debounceTimerRef,
                   cleanup, channelIdRef, channel, fetches, queue, docOrigin>>

\* The upsert u fails, with an error result (73-75) or a throw (80-82); then
\* the finally of 83-85.  An echo still on its way means the store had not
\* executed the write: there will be none.
UpsertFail(u) ==
    /\ Tick
    /\ u \in upserts
    /\ upserts' = upserts \ {u}
    /\ queue' = SelectSeq(queue, LAMBDA e : e # u)
    /\ syncStatus' = IF mounted THEN PushPhase(FALSE) ELSE syncStatus
    /\ isPushingRef' = PushingAfter(FALSE)
    /\ ev' = Ev("upsertFail")
    /\ UNCHANGED <<mounted, user, year, dateCells, dateCellsRef, syncTimestamp,
                   initialPullDoneRef, isFromRealtimeRef, debounceTimerRef,
                   cleanup, channelIdRef, channel, fetches, docOrigin>>

(* ----------------------- the realtime handler ------------------------- *)
\* The change notification n is delivered to the handler of the subscribed
\* channel, lines 161-176, its updated_at rendered with zone suffix z; then
\* the commit of the setDateCells call.  q is what remains queued; own says
\* that n echoes an upsert of this device.
Deliver(n, z, q, own) ==
    /\ Tick
    /\ channel # {}
    /\ LET rowTs == FormatTs(n.ts, z)
           localTs == GetSyncTimestamp(syncTimestamp, storage.read)
           accept == \E c \in channel :
                        AcceptsRow(c.year, n.year, localTs, rowTs, Size(n.data))
           r == IF accept
                THEN AutoPushEffect(isEnabled, initialPullDoneRef, isPushingRef,
                                    TRUE, Replaced(dateCells, n.data),
                                    debounceTimerRef, cleanup, year)
                ELSE [flag |-> isFromRealtimeRef, timer |-> debounceTimerRef,
                      cleanup |-> cleanup]
           cells == IF accept THEN Replaced(dateCells, n.data) ELSE dateCells
       IN  /\ queue' = q
           /\ dateCells' = cells
           /\ dateCellsRef' = cells
           /\ docOrigin' = IF accept THEN "realtime" ELSE docOrigin
           /\ syncTimestamp' =
                 IF accept
                 THEN SetSyncTimestamp(syncTimestamp, rowTs, storage.write)
                 ELSE syncTimestamp
           /\ isFromRealtimeRef' = r.flag
           /\ debounceTimerRef' = r.timer
           /\ cleanup' = r.cleanup
           /\ ev' = [Ev("notify") EXCEPT
                        !.empty = Size(n.data) = 0,
                        !.hadTs = localTs # NoTs,
                        !.same = localTs # NoTs
                                 /\ GetTime(rowTs) = GetTime(localTs),
                        !.match = \E c \in channel : c.year = n.year,
                        !.active = n.year = year,
                        !.own = own,
                        !.applied = accept,
                        !.ts = IF accept THEN rowTs ELSE NoTs,
                        !.data = IF accept THEN n.data ELSE EmptyDoc]
    /\ UNCHANGED <<mounted, user, year, syncStatus, isPushingRef,
                   initialPullDoneRef, channelIdRef, channel, fetches, upserts>>

\* The echo of an upsert of this device arrives.
NotifyOwn ==
    /\ queue # << >>
    /\ Deliver(Head(queue), RealtimeZone, Tail(queue), TRUE)

\* Another device of the same user wrote the row of year y: payload d,
\* updated_at t.
NotifyOther(y, d, t) ==
    Deliver(Upsert(y, d, t, 0), RealtimeZone, queue, FALSE)

(* --------------------------- specification ---------------------------- *)
Next ==
    \/ SignIn /\ UNCHANGED <<remote, storage>>
    \/ SignOut /\ UNCHANGED <<remote, storage>>
    \/ \E y \in Years : SetSelectedYear(y) /\ UNCHANGED <<remote, storage>>
    \/ \E d \in Docs : Edit(d) /\ UNCHANGED <<remote, storage>>
    \/ Unmount /\ UNCHANGED <<remote, storage>>
    \/ SyncNow /\ UNCHANGED <<remote, storage>>
    \/ TimerFire /\ UNCHANGED <<remote, storage>>
    \/ \E f \in fetches, row \in DataRows, z \in Zones :
          FetchResolve(f, TRUE, row, z) /\ UNCHANGED <<remote, storage>>
    \/ \E f \in fetches, row \in Rows \ DataRows :
          FetchResolve(f, TRUE, row, "Z") /\ UNCHANGED <<remote, storage>>
    \/ \E f \in fetches : FetchResolve(f, FALSE, NoRow, "Z") /\ UNCHANGED <<remote, storage>>
    \/ \E u \in upserts : UpsertAck(u) /\ UNCHANGED <<remote, storage>>
    \/ \E u \in upserts : UpsertFail(u) /\ UNCHANGED <<remote, storage>>
    \/ NotifyOwn /\ UNCHANGED <<remote, storage>>
    \/ \E y \in Years, d \in Docs, t \in Instants :
          NotifyOther(y, d, t) /\ UNCHANGED <<remote, storage>>

Spec == Init /\ [][Next]_vars

TypeOK ==
    /\ mounted \in BOOLEAN
    /\ user \in {NoUser, TheUser}
    /\ year \in Years
    /\ dateCells \in Docs
    /\ dateCellsRef \in Docs
    /\ syncTimestamp \in TsStrings \cup {NoTs}
    /\ syncStatus \in {"idle", "pushing", "pulling", "error", "offline"}
    /\ isPushingRef \in BOOLEAN
    /\ initialPullDoneRef \in BOOLEAN
    /\ isFromRealtimeRef \in BOOLEAN
    /\ Cardinality(debounceTimerRef) <= 1
    /\ channelIdRef \in 1..(MaxSteps + 1)
    /\ Cardinality(channel) <= 1
    /\ steps \in 0..MaxSteps
    /\ remote \in [Years -> {NoRow} \cup {Row(d, t) : d \in Docs, t \in Instants}]
    /\ storage \in StorageStates

(* ------------------- the hook together with the store ------------------ *)
\* SpecStore tracks the table calendar_states (one row per user and year,
\* the unique constraint of the migration) for a user who stays signed in
\* and whose fetches and upserts all succeed.  A fetch is answered with the
\* row the store holds; the row an upsert wrote is in the store when the
\* upsert is acknowledged; another device's write is reported at once.
InitStore ==
    /\ InitHook
    /\ remote \in [Years -> Rows]
    /\ storage = Working

\* The select of f is answered from the store.
StoreFetch(f, z) ==
    /\ FetchResolve(f, TRUE, remote[f.year], z)
    /\ UNCHANGED <<remote, storage>>

\* The upsert u has written its row (63-71: data and updated_at: now).
StoreAck(u) ==
    /\ UpsertAck(u)
    /\ remote' = [remote EXCEPT ![u.year] = Row(u.data, u.ts)]
    /\ UNCHANGED storage

\* Another device of the user upserts the row of year y.
RemoteWrite(y, d, t) ==
    /\ NotifyOther(y, d, t)
    /\ remote' = [remote EXCEPT ![y] = Row(d, t)]
    /\ UNCHANGED storage

NextStore ==
    \/ \E y \in Years : SetSelectedYear(y) /\ UNCHANGED <<remote, storage>>
    \/ \E d \in Docs : Edit(d) /\ UNCHANGED <<remote, storage>>
    \/ SyncNow /\ UNCHANGED <<remote, storage>>
    \/ TimerFire /\ UNCHANGED <<remote, storage>>
    \/ \E f \in fetches, z \in Zones : StoreFetch(f, z)
    \/ \E u \in upserts : StoreAck(u)
    \/ NotifyOwn /\ UNCHANGED <<remote, storage>>
    \/ \E y \in Years, d \in Docs, t \in Instants : RemoteWrite(y, d, t)

SpecStore == InitStore /\ [][NextStore]_vars

(* ------------------ every request is eventually answered --------------- *)
\* SpecFair is Spec under the assumption that the store answers: a fetch
\* or an upsert in flight is eventually answered, with a result or with a
\* failure.  So that the bound on the length of a behaviour never cuts an
\* answer off, an operation that is not an answer is taken only if the
\* steps left suffice to answer everything owed after it.

\* The answers still owed: one for each fetch and upsert in flight, and one
\* for the upsert the pull of a Sync Now will issue (AuthContext.tsx 133).
Owed ==
    Cardinality(fetches) + Cardinality(upserts)
      + Cardinality({f \in fetches : f.origin = "syncnow"})

Reserve == Owed' <= MaxSteps - steps'

\* The await of lines 93-98 returns or throws.
FetchAnswered ==
    \/ \E f \in fetches, row \in DataRows, z \in Zones :
          FetchResolve(f, TRUE, row, z) /\ UNCHANGED <<remote, storage>>
    \/ \E f \in fetches, row \in Rows \ DataRows :
          FetchResolve(f, TRUE, row, "Z") /\ UNCHANGED <<remote, storage>>
    \/ \E f \in fetches : FetchResolve(f, FALSE, NoRow, "Z") /\ UNCHANGED <<remote, storage>>

\* The await of lines 63-71 returns or throws.
UpsertAnswered ==
    \/ \E u \in upserts : UpsertAck(u) /\ UNCHANGED <<remote, storage>>
    \/ \E u \in upserts : UpsertFail(u) /\ UNCHANGED <<remote, storage>>

NextFair ==
    \/ SignIn /\ Reserve /\ UNCHANGED <<remote, storage>>
    \/ SignOut /\ Reserve /\ UNCHANGED <<remote, storage>>
    \/ \E y \in Years : SetSelectedYear(y) /\ Reserve /\ UNCHANGED <<remote, storage>>
    \/ \E d \in Docs : Edit(d) /\ Reserve /\ UNCHANGED <<remote, storage>>
    \/ Unmount /\ Reserve /\ UNCHANGED <<remote, storage>>
    \/ SyncNow /\ Reserve /\ UNCHANGED <<remote, storage>>
    \/ TimerFire /\ Reserve /\ UNCHANGED <<remote, storage>>
    \/ FetchAnswered
    \/ UpsertAnswered
    \/ NotifyOwn /\ Reserve /\ UNCHANGED <<remote, storage>>
    \/ \E y \in Years, d \in Docs, t \in Instants :
          NotifyOther(y, d, t) /\ Reserve /\ UNCHANGED <<remote, storage>>

SpecFair ==
    /\ Init
    /\ [][NextFair]_vars
    /\ WF_vars(FetchAnswered)
    /\ WF_vars(UpsertAnswered)

(* --------------------- the hook on failing storage --------------------- *)
\* SpecStorage runs the pulls and pushes of a user who stays signed in, on
\* a localStorage that may start and stop failing at any moment, in its
\* reads, its writes or both.
InitStorage ==
    /\ InitHook
    /\ remote = [y \in Years |-> NoRow]
    /\ storage \in StorageStates

\* localStorage starts or stops throwing; nothing of the hook runs.
StorageChanges ==
    /\ storage' \in StorageStates \ {storage}
    /\ ev' = Ev("storage")
    /\ UNCHANGED <<mounted, user, year, dateCells, dateCellsRef, syncTimestamp,
                   syncStatus, isPushingRef, initialPullDoneRef,
                   isFromRealtimeRef, debounceTimerRef, cleanup, channelIdRef,
                   channel, fetches, upserts, queue, remote, docOrigin, steps>>

NextStorage ==
    \/ \E y \in Years : SetSelectedYear(y) /\ UNCHANGED <<remote, storage>>
    \/ \E d \in Docs : Edit(d) /\ UNCHANGED <<remote, storage>>
    \/ SyncNow /\ UNCHANGED <<remote, storage>>
    \/ TimerFire /\ UNCHANGED <<remote, storage>>
    \/ FetchAnswered
    \/ UpsertAnswered
    \/ StorageChanges

SpecStorage == InitStorage /\ [][NextStorage]_vars

(* ------------------------------ claims -------------------------------- *)
\* The operation just taken was a pull's continuation whose fetch returned
\* a non-empty document while a Sync Timestamp was recorded.
PullOfDataWithTs ==
    /\ ev.op = "fetchResolve" /\ ev.ok /\ ~ev.empty /\ ev.hadTs

\* The operation just taken was a local edit to a non-empty state, made by
\* a signed-in user after the initial pull completed and with no push in
\* flight.
EligibleEdit ==
    /\ ev.op = "edit" /\ ~ev.empty
    /\ isEnabled /\ initialPullDoneRef /\ ~isPushingRef

\* C1: a pull whose fetch returns no document, or a document without
\* date-keys, does not call the document setter and leaves Document State
\* as it was, whatever the local state and the recorded Sync Timestamp.
C1_NoDestructiveEmptyPull ==
    [][(ev'.op = "fetchResolve" /\ ev'.ok /\ ev'.empty)
         => (~ev'.applied /\ dateCells' = dateCells
             /\ docOrigin' = docOrigin)]_vars

\* C1 witness: an empty result met a non-empty Document State with no Sync
\* Timestamp recorded, where a document with data would have been applied.
C1_Witness ==
    /\ ev.op = "fetchResolve" /\ ev.ok /\ ev.empty
    /\ ~ev.hadTs /\ ~ev.localEmpty /\ mounted

\* C2: no upsert call is ever issued with an empty Document State: every
\* upsert in flight carries at least one date-key.
C2_NoEmptyPush ==
    \A u \in upserts : Size(u.data) > 0

\* C3 as claimed: with a Sync Timestamp T recorded and a non-empty remote
\* document, the pull applies the document when its updatedAt is later
\* than T and does not when it is not, for every local Document State.
C3_NewerWinsForEveryLocalState ==
    PullOfDataWithTs => (ev.applied <=> (ev.newer /\ ~ev.same))

\* C3 as amended: the same for every NON-EMPTY local Document State, with
\* updatedAt and T compared as strings, the way line 117 compares them.
C3_NewerWins ==
    (PullOfDataWithTs /\ ~ev.localEmpty) => (ev.applied <=> ev.newer)

\* C3 witness: both outcomes need a state; this one is the refusal of a
\* document exactly as old as T over a non-empty local state.
C3_Witness ==
    /\ PullOfDataWithTs /\ ~ev.localEmpty
    /\ ev.same /\ ~ev.newer /\ ~ev.applied

\* C4: when Document State is empty as the fetch returns a non-empty
\* document, the pull applies it, whatever the recorded Sync Timestamp;
\* while the host is mounted Document State is then that document.
C4_EmptyLocalBias ==
    (ev.op = "fetchResolve" /\ ev.ok /\ ~ev.empty /\ ev.localEmpty)
      => /\ ev.applied
         /\ mounted => (docOrigin = "pull" /\ Size(dateCells) > 0)

\* C4 witness: the remote document was applied over an empty local state
\* although the recorded Sync Timestamp is not older than it.
C4_Witness ==
    /\ PullOfDataWithTs /\ ev.localEmpty /\ ~ev.newer
    /\ ev.applied /\ mounted /\ Size(dateCells) > 0

\* C5: no push is scheduled while the pull issued for the active (owner,
\* partition) is unresolved, whatever earlier pulls are in flight and
\* whenever they resolve.
C5_PreHydrationGuard ==
    debounceTimerRef # {} => ~\E f \in fetches : f.cur

\* C6: a local edit to a non-empty state, made after the initial pull
\* completed and with no push in flight, leaves exactly one debounce timer
\* pending, the timers of the earlier edits of the burst cancelled; and the
\* one upsert a firing timer issues carries the Document State of that
\* moment, the state after the last edit.
C6_DebounceCoalescing ==
    [][/\ EligibleEdit' => Cardinality(debounceTimerRef') = 1
       /\ ev'.op = "timerFire"
            => /\ debounceTimerRef' = {}
               /\ Cardinality(upserts' \ upserts) = 1
               /\ \A u \in upserts' \ upserts :
                     u.data = dateCells /\ Size(u.data) > 0]_vars

\* C7: a notification for the active partition whose updatedAt denotes the
\* instant of the recorded Sync Timestamp, whatever its zone suffix, leaves
\* Document State, the Sync Timestamp and the remote-originated flag alone.
C7_EchoSuppressionByInstant ==
    [][(ev'.op = "notify" /\ ev'.match /\ ev'.same)
         => /\ ~ev'.applied
            /\ dateCells' = dateCells
            /\ syncTimestamp' = syncTimestamp
            /\ isFromRealtimeRef' = isFromRealtimeRef]_vars

\* C7 witness: such a notification, with data, arrived while the recorded
\* Sync Timestamp ends in "Z" and the notification's in "+00:00".
C7_Witness ==
    /\ ev.op = "notify" /\ ev.match /\ ev.same /\ ~ev.empty
    /\ syncTimestamp \in {ToISOString(i) : i \in Instants}

\* C8: the notification that echoes a push of this device never replaces
\* Document State, however it interleaves with the acknowledgement of the
\* push and with other notifications.
C8_OwnWritesNeverReapplied ==
    (ev.op = "notify" /\ ev.own) => ~ev.applied

\* C9 as claimed: no upsert call at all is issued with a Document State
\* that an accepted notification wrote and no local edit has changed.
C9_NoUpsertOfRemoteApplied ==
    [][ev'.pushed => docOrigin # "realtime"]_vars

\* C9 as amended: no automatic push is scheduled, and so none issued by
\* the debounce timer, for a Document State that an accepted notification
\* wrote and no local edit has changed.
C9_NoAutoPushOfRemoteApplied ==
    docOrigin = "realtime" => debounceTimerRef = {}

\* C9 witness: a notification with data was accepted in a state where a
\* local edit would have scheduled a push, and no push is pending.
C9_Witness ==
    /\ ev.op = "notify" /\ ev.applied /\ docOrigin = "realtime"
    /\ isEnabled /\ initialPullDoneRef /\ ~isPushingRef
    /\ Size(dateCells) > 0 /\ cleanup = FALSE /\ debounceTimerRef = {}

\* C10: the first local edit after an accepted notification, to a
\* non-empty state, made after the initial pull completed and with no push
\* in flight, schedules a push, in whatever state the notification arrived.
C10_OneSuppressionPerRemoteChange ==
    [][(docOrigin = "realtime" /\ EligibleEdit') => debounceTimerRef' # {}]_vars

\* C11: at most one upsert call is outstanding, whoever requested the
\* pushes, and the push-in-flight flag is true exactly while one is.
C11_SingleFlightPush ==
    /\ Cardinality(upserts) <= 1
    /\ isPushingRef <=> upserts # {}

\* Nothing is in flight, scheduled or on its way: the engine takes no
\* further step until the user or another device acts.
Quiescent ==
    /\ mounted /\ isEnabled
    /\ fetches = {} /\ upserts = {} /\ queue = << >>
    /\ debounceTimerRef = {}

\* C12: with the user signed in and every fetch and upsert succeeding,
\* once local edits and remote writes have ceased and everything in flight
\* has been answered, the row of the active year in the store holds the
\* non-empty local Document State.
C12_EventualConsistency ==
    (Quiescent /\ Size(dateCells) > 0)
      => (remote[year].present /\ remote[year].data = dateCells)

\* The operation just taken was a pull that applied a document or the
\* acknowledgement of a push.
SyncedByPullOrPush ==
    \/ ev.op = "fetchResolve" /\ ev.applied
    \/ ev.op = "upsertAck"

\* C13 as claimed: after a successful pull or push the Sync Timestamp is
\* the updatedAt the store reported for the operation, never a value read
\* from the local clock.
C13_TimestampFromStoreOnly ==
    SyncedByPullOrPush => (syncTimestamp = ev.ts /\ ~ev.clock)

\* C13 as amended: after a pull that applied a document the Sync Timestamp
\* is the updatedAt string the store returned with it; after an
\* acknowledged push it is the local-clock timestamp the push sent as
\* updated_at.
C13_TimestampProvenance ==
    SyncedByPullOrPush
      => (syncTimestamp = ev.ts /\ (ev.clock <=> ev.op = "upsertAck"))

\* C13 witness: a pull applied a document whose updatedAt is another
\* instant than the Sync Timestamp recorded before, and recorded it.
C13_Witness ==
    /\ ev.op = "fetchResolve" /\ ev.applied /\ ev.hadTs /\ ~ev.same
    /\ syncTimestamp = ev.ts /\ docOrigin = "pull"

\* C14: whenever no user is signed in, the phase the hook reports is the
\* disabled value.
C14_DisabledPhase ==
    user = NoUser => syncStatus = "disabled"

\* C15: while no user is signed in the engine issues no fetch and no
\* upsert, holds no change subscription and no pending debounce timer.
C15_NoIOWithoutIdentity ==
    [][user' = NoUser
         => /\ upserts' \subseteq upserts
            /\ Retire(fetches') \subseteq Retire(fetches)
            /\ channel' = {}
            /\ debounceTimerRef' = {}]_vars

\* The operation just taken started a pull: the auto-pull effect ran for
\* a signed-in user, or Sync Now was clicked.
PullStarted ==
    \/ ev.op \in {"signIn", "syncNow"}
    \/ ev.op = "setYear" /\ isEnabled

\* C16: a pull sets the phase to pulling as it starts; as its fetch is
\* answered it sets the phase to idle when the fetch succeeded, whatever
\* it returned, and to error when it failed.  That is the phase the hook
\* then reports, unless the push of Sync Now follows at once.
C16_PullPhaseTransitions ==
    [][/\ PullStarted' => syncStatus' = "pulling"
       /\ ev'.op = "fetchResolve"
            => /\ ev'.phase = (IF ev'.ok THEN "idle" ELSE "error")
               /\ (mounted /\ ~ev'.pushed) => syncStatus' = ev'.phase]_vars

\* C16 witness: the fetch of a pull failed and the phase, pulling until
\* then, is error.
C16_Witness ==
    /\ ev.op = "fetchResolve" /\ ~ev.ok /\ ~ev.pushed
    /\ mounted /\ syncStatus = "error"

\* C17: the phase turns to pushing only in a step that issues an upsert,
\* the debounce timer firing or the push of Sync Now; the answer to an
\* upsert sets the phase to idle when it succeeded and to error when it
\* failed.
C17_PushPhaseTransitions ==
    [][/\ (syncStatus' = "pushing" /\ syncStatus # "pushing")
            => ev'.pushed /\ ev'.op \in {"timerFire", "fetchResolve"}
       /\ (ev'.pushed /\ mounted) => syncStatus' = "pushing"
       /\ (ev'.op = "upsertAck" /\ mounted) => syncStatus' = "idle"
       /\ (ev'.op = "upsertFail" /\ mounted) => syncStatus' = "error"]_vars

\* C17 witness: the upsert of a push failed, none is outstanding, and the
\* phase is error.
C17_Witness ==
    /\ ev.op = "upsertFail" /\ mounted /\ syncStatus = "error"
    /\ upserts = {} /\ docOrigin # "init"

\* C18: a failed fetch ends its pull with the phase set to error and with
\* Document State and the Sync Timestamp as they were, and what follows
\* the pull (the .then of the auto-pull, the push of Sync Now) still runs;
\* a failed upsert ends its push likewise, with the push-in-flight flag
\* cleared.
C18_FailuresContained ==
    [][/\ (ev'.op = "fetchResolve" /\ ~ev'.ok)
            => /\ dateCells' = dateCells
               /\ syncTimestamp' = syncTimestamp
               /\ ev'.phase = "error"
               /\ (mounted /\ ~ev'.pushed) => syncStatus' = "error"
               /\ ev'.pushed \/ initialPullDoneRef'
               /\ Cardinality(fetches') < Cardinality(fetches)
       /\ ev'.op = "upsertFail"
            => /\ dateCells' = dateCells
               /\ syncTimestamp' = syncTimestamp
               /\ mounted => syncStatus' = "error"
               /\ ~isPushingRef'
               /\ Cardinality(upserts') < Cardinality(upserts)]_vars

\* C18 witness: the upsert of a non-empty document failed on a device that
\* holds a Sync Timestamp; the flag is clear and the phase is error.
C18_Witness ==
    /\ ev.op = "upsertFail" /\ mounted
    /\ ~isPushingRef /\ syncStatus = "error"
    /\ Size(dateCells) > 0 /\ syncTimestamp # NoTs

\* C19: the handler of the subscription is always the one made for the
\* active partition, and a change notification for another partition
\* changes neither Document State nor the Sync Timestamp nor the
\* remote-originated flag.
C19_PartitionFilter ==
    [][/\ \A c \in channel' : c.year = year'
       /\ (ev'.op = "notify" /\ ~ev'.active)
            => /\ ~ev'.applied
               /\ dateCells' = dateCells
               /\ syncTimestamp' = syncTimestamp
               /\ isFromRealtimeRef' = isFromRealtimeRef]_vars

\* C19 witness: after a change of partition, a notification for the other
\* partition arrived with a non-empty payload and an instant that is not
\* the Sync Timestamp's, and was not applied.
C19_Witness ==
    /\ ev.op = "notify" /\ ~ev.active /\ ~ev.applied
    /\ ~ev.empty /\ ~ev.same
    /\ year = 2026 /\ channelIdRef > 1

\* C20: a change notification whose payload has no date-keys changes
\* neither Document State nor the Sync Timestamp nor the remote-originated
\* flag, whatever the local document and timestamp are.
C20_EmptyNotificationIgnored ==
    [][(ev'.op = "notify" /\ ev'.empty)
        => /\ ~ev'.applied
           /\ dateCells' = dateCells
           /\ syncTimestamp' = syncTimestamp
           /\ isFromRealtimeRef' = isFromRealtimeRef]_vars

\* C20 witness: an empty notification for the active partition, with an
\* instant that is not the Sync Timestamp's, arrived at a device holding a
\* non-empty document, which it still holds.
C20_Witness ==
    /\ ev.op = "notify" /\ ev.active /\ ev.match /\ ev.empty /\ ~ev.same
    /\ ~ev.applied /\ Size(dateCells) > 0

\* C21: a change notification for the active partition, with date-keys
\* and an instant other than the recorded Sync Timestamp's (or none
\* recorded), is applied: Document State is exactly its payload, the Sync
\* Timestamp is its updatedAt, and the remote-originated flag is set; the
\* flag is still set afterwards unless the auto-push effect that ran for
\* this change passed its first guards and consumed it.  No push is
\* scheduled for the change.
C21_AcceptedNotification ==
    [][(ev'.op = "notify" /\ ev'.active /\ ~ev'.empty /\ ~ev'.same)
        => /\ ev'.applied
           /\ Size(ev'.data) > 0 /\ dateCells' = ev'.data
           /\ ev'.ts # NoTs /\ syncTimestamp' = ev'.ts
           /\ isFromRealtimeRef' \/ (initialPullDoneRef /\ ~isPushingRef)
           /\ debounceTimerRef' = {}]_vars

\* C21 witness: another device's notification was accepted on a device
\* that had a Sync Timestamp recorded, and its payload is Document State.
C21_Witness ==
    /\ ev.op = "notify" /\ ev.active /\ ~ev.own /\ ev.hadTs /\ ~ev.same
    /\ ev.applied /\ dateCells = ev.data /\ syncTimestamp = ev.ts

\* C22: a pull that applies a remote document records the document's
\* updatedAt as Sync Timestamp and, the host being mounted, leaves exactly
\* the remote payload as Document State; a pull that does not apply
\* leaves the Sync Timestamp and Document State as they were.
C22_PullApplyEffect ==
    [][ev'.op = "fetchResolve"
        => /\ ev'.applied
                => /\ Size(ev'.data) > 0
                   /\ ev'.ts # NoTs /\ syncTimestamp' = ev'.ts
                   /\ mounted => (dateCells' = ev'.data /\ docOrigin' = "pull")
           /\ ~ev'.applied
                => /\ syncTimestamp' = syncTimestamp
                   /\ dateCells' = dateCells]_vars

\* C22 witness: a newer remote document was applied over a non-empty
\* local state and is now Document State.
C22_Witness ==
    /\ PullOfDataWithTs /\ ~ev.localEmpty /\ ev.newer /\ ev.applied
    /\ mounted /\ dateCells = ev.data /\ syncTimestamp = ev.ts

\* C23: at most one channel is subscribed at any moment; unmounting,
\* signing out and changing the partition remove the channel that was
\* subscribed, so that the one subscribed afterwards, if any, is a new
\* one; none is subscribed while the hook is unmounted or no user is
\* signed in.
C23_SubscriptionLifecycle ==
    [][/\ Cardinality(channel') <= 1
       /\ (~mounted' \/ user' = NoUser) => channel' = {}
       /\ ev'.op \in {"unmount", "signOut", "signIn", "setYear"}
            => channel' \cap channel = {}]_vars

\* C23 witness: the partition was changed for a signed-in user; the
\* channel of the earlier partition is gone and one channel, for the new
\* partition, is subscribed.
C23_Witness ==
    /\ ev.op = "setYear" /\ isEnabled /\ mounted
    /\ channel = {[year |-> year, id |-> channelIdRef]}
    /\ channelIdRef > 1

\* C24: the counter behind the channel names never decreases, and every
\* channel newly subscribed carries the counter's new value as suffix, a
\* number greater than the counter was before and so greater than the
\* suffix of every channel subscribed earlier.
C24_SubscriptionEpoch ==
    [][/\ channelIdRef' >= channelIdRef
       /\ \A c \in channel : c.id <= channelIdRef
       /\ \A c \in channel' \ channel :
             /\ c.id = channelIdRef'
             /\ c.id > channelIdRef]_vars

\* C24 witness: the third subscription of the instance, after two
\* re-runs of the effect, carries suffix 3.
C24_Witness ==
    /\ ev.op \in {"setYear", "signIn"}
    /\ channelIdRef = 3
    /\ \E c \in channel : c.id = 3

\* The phase is one of the two transient ones.
Transient == syncStatus \in {"pulling", "pushing"}

\* C25: every fetch and upsert being answered in the end, a mounted hook
\* whose phase is pulling or pushing reaches the phase idle or error (or
\* is unmounted, and reports no phase); and a mounted hook with no fetch
\* and no upsert outstanding is never in the phase pulling or pushing.
C25_TransientPhasesResolve ==
    /\ []((mounted /\ fetches = {} /\ upserts = {}) => ~Transient)
    /\ (mounted /\ Transient) ~> (~mounted \/ syncStatus \in {"idle", "error"})

\* C25 witness: the upsert of a push was acknowledged; nothing is
\* outstanding any more and the phase, pushing until then, is idle.
C25_Witness ==
    /\ ev.op = "upsertAck" /\ mounted
    /\ fetches = {} /\ upserts = {}
    /\ syncStatus = "idle"

\* C26: the continuation of an auto-pull, whether its fetch succeeded or
\* failed, leaves the initial-pull-completed flag true; from the error
\* phase the next local edit to a non-empty state by a signed-in user
\* schedules a push and Sync Now starts a new pull; and no fetch, upsert
\* or timer is started by anything but such a trigger.
C26_ErrorNotAbsorbing ==
    [][/\ (ev'.op = "fetchResolve" /\ ~ev'.pushed) => initialPullDoneRef'
       /\ (syncStatus = "error" /\ isEnabled /\ ev'.op = "edit" /\ ~ev'.empty)
            => debounceTimerRef' # {}
       /\ (syncStatus = "error" /\ ev'.op = "syncNow")
            => /\ syncStatus' = "pulling"
               /\ Cardinality(fetches') > Cardinality(fetches)
       /\ Retire(fetches') \subseteq Retire(fetches)
            \/ ev'.op \in {"signIn", "setYear", "syncNow"}
       /\ upserts' \subseteq upserts
            \/ ev'.op \in {"timerFire", "fetchResolve"}
       /\ (debounceTimerRef' # {} /\ debounceTimerRef = {})
            => ev'.op \in {"edit", "fetchResolve"}]_vars

\* C27: unmounting and signing out leave no debounce timer pending, and
\* none is pending while the hook is unmounted or no user is signed in, so
\* no timer fires then; a change of partition leaves none pending; after
\* a local edit at most one is pending, set by that edit for the active
\* partition; and the timer that fires was set for the active partition
\* by a signed-in user of a mounted hook.
C27_TimerCancellation ==
    [][/\ ev'.op \in {"unmount", "signOut", "setYear"} => debounceTimerRef' = {}
       /\ (~mounted' \/ user' = NoUser) => debounceTimerRef' = {}
       /\ Cardinality(debounceTimerRef') <= 1
       /\ \A t \in debounceTimerRef' : t.year = year'
       /\ ev'.op = "timerFire"
            => /\ mounted /\ isEnabled
               /\ \A u \in upserts' \ upserts : u.year = year]_vars

\* C27 witness: the hook unmounted while a debounce timer was pending,
\* and none is pending now.
C27_Witness ==
    /\ ev.op = "unmount" /\ ev.hadTimer
    /\ ~mounted /\ debounceTimerRef = {}

\* The answer this step delivers is late: the hook has unmounted, the user
\* has signed out, or the request was made for another year than the
\* active one.
LateAnswer ==
    /\ ev'.op \in {"fetchResolve", "upsertAck", "upsertFail"}
    /\ \/ ~mounted
       \/ user = NoUser
       \/ \E f \in fetches \ fetches' : f.year # year
       \/ \E u \in upserts \ upserts' : u.year # year

\* C28: the answer to a fetch or an upsert that arrives after the hook
\* unmounted, after the user signed out or after the active partition
\* changed leaves Document State and the Sync Timestamp as they were.
C28_LateResultsInert ==
    [][LateAnswer => (dateCells' = dateCells /\ syncTimestamp' = syncTimestamp)]_vars

\* C29: the Sync Timestamp is one value for all partitions: a change of
\* partition leaves it as it was, and the pull of any partition compares
\* the remote updatedAt with it, as strings: over a non-empty local state
\* a remote document whose updatedAt is not greater is not applied.
C29_GlobalSyncTimestamp ==
    [][/\ ev'.op = "setYear" => syncTimestamp' = syncTimestamp
       /\ (ev'.op = "fetchResolve" /\ ev'.ok /\ ~ev'.empty /\ ev'.hadTs
             /\ ~ev'.localEmpty /\ ~ev'.newer)
            => /\ ~ev'.applied
               /\ dateCells' = dateCells
               /\ syncTimestamp' = syncTimestamp]_vars

\* C29 witness: an earlier pull applied a document; the pull issued for
\* 2026 after the change of partition returned a document whose updatedAt
\* is not greater than the recorded Sync Timestamp, and was refused.
C29_Witness ==
    /\ PullOfDataWithTs /\ ev.current /\ year = 2026
    /\ ~ev.localEmpty /\ ~ev.newer /\ ~ev.applied
    /\ docOrigin = "pull" /\ mounted

\* C30: while localStorage cannot be read, every pull that fetches a
\* non-empty document takes the Sync Timestamp for absent and applies the
\* document; while it cannot be written, a pull whose fetch succeeded and
\* an acknowledged push leave the stored value alone and end with the
\* phase idle, the pull having decided and Document State being what they
\* are with a writable storage, the push leaving Document State alone.
C30_StorageFailureDegrades ==
    [][/\ (ev'.op = "fetchResolve" /\ ev'.ok /\ ~ev'.empty /\ ~storage.read)
            => /\ ~ev'.hadTs /\ ev'.applied
               /\ mounted => dateCells' = ev'.data
       /\ (ev'.op = "fetchResolve" /\ ev'.ok /\ ~storage.write)
            => /\ syncTimestamp' = syncTimestamp
               /\ ev'.phase = "idle"
               /\ (mounted /\ ~ev'.pushed) => syncStatus' = "idle"
               /\ ev'.applied
                    <=> (~ev'.empty /\ (~ev'.hadTs \/ ev'.newer \/ ev'.localEmpty))
               /\ mounted
                    => dateCells' = (IF ev'.applied THEN ev'.data ELSE dateCells)
       /\ (ev'.op = "upsertAck" /\ ~storage.write)
            => /\ syncTimestamp' = syncTimestamp
               /\ mounted => syncStatus' = "idle"
               /\ ~isPushingRef'
               /\ dateCells' = dateCells]_vars

\* C30 witness: localStorage fails to read and to write; it holds a Sync
\* Timestamp not smaller than the updatedAt of the document the pull
\* fetched; the pull applied the document over a non-empty local state
\* and the stored timestamp is as it was.
C30_Witness ==
    /\ ev.op = "fetchResolve" /\ ev.ok /\ ~ev.empty /\ ~ev.localEmpty
    /\ ~storage.read /\ ~storage.write
    /\ ev.applied /\ mounted /\ dateCells = ev.data
    /\ syncTimestamp # NoTs /\ ~StrGreater(ev.ts, syncTimestamp)

\* C31: while Document State is what a pull applied, no local edit having
\* changed it since, no push is scheduled for it and the debounce timer
\* issues no upsert of it.
C31_PulledDataNotAutoPushed ==
    [][/\ docOrigin' = "pull" => debounceTimerRef' = {}
       /\ ev'.op = "timerFire" => docOrigin # "pull"]_vars

\* C32: Sync Now issues its upsert in the continuation of its own pull,
\* not before; and when that pull applied a remote document newer than the
\* recorded Sync Timestamp, the upsert carries the applied document, not
\* the Document State from before the pull.
C32_SyncNowOrdering ==
    [][/\ ev'.op = "syncNow" => upserts' = upserts
       /\ (ev'.op = "fetchResolve" /\ ev'.pushed)
            => \E f \in fetches \ fetches' : f.origin = "syncnow"
       /\ (ev'.op = "fetchResolve" /\ ev'.pushed /\ mounted
             /\ ev'.applied /\ ev'.newer)
            => \A u \in upserts' \ upserts : u.data = ev'.data]_vars

\* C33: whenever a mounted hook reports the phase idle or error, no fetch
\* and no upsert is outstanding.
C33_PhaseReflectsOutstandingWork ==
    (mounted /\ syncStatus \in {"idle", "error"})
      => (fetches = {} /\ upserts = {})

\* C34: the recorded Sync Timestamp, read as an instant, never decreases
\* from one step to the next, and a notification whose updatedAt is earlier
\* than the recorded Sync Timestamp does not replace Document State.
C34_SyncTimestampMonotonic ==
    [][/\ (syncTimestamp # NoTs /\ syncTimestamp' # NoTs)
            => GetTime(syncTimestamp') >= GetTime(syncTimestamp)
       /\ (ev'.op = "notify" /\ ev'.applied /\ syncTimestamp # NoTs)
            => GetTime(ev'.ts) >= GetTime(syncTimestamp)]_vars

\* C35: when an upsert is answered while the signed-in, mounted hook holds
\* a non-empty local edit that the answered upsert did not carry, the edit
\* is on its way to the store: the debounce timer is pending or an
\* outstanding upsert for the active year carries it.
C35_NoLostEditDuringPush ==
    [][(/\ ev'.op \in {"upsertAck", "upsertFail"}
        /\ mounted /\ isEnabled
        /\ docOrigin = "local" /\ Size(dateCells) > 0
        /\ \A u \in upserts \ upserts' :
               u.year = year /\ u.data # dateCells)
         => \/ debounceTimerRef' # {}
            \/ \E u \in upserts' : u.year = year /\ u.data = dateCells]_vars

====
